---- MODULE Spec2Model ----
(***************************************************************************)
(* Verification model of three standalone puzzle programs:                 *)
(*   src/08/main.rs    boot-code interpreter (run, run_with_fix)           *)
(*   src/03/part1.rs   toboggan walk over a map of trees                   *)
(*   src/puzzle-1b.rs  three-entry sum search                              *)
(* Each program has its own specification (Spec, SpecToboggan, SpecSum);   *)
(* the variables of the other two programs stay at their idle values.      *)
(***************************************************************************)
EXTENDS Integers, Sequences, FiniteSets, TLC

VARIABLES
    \* src/08/main.rs
    instructions,     \* BootCode.instructions of the program given to main
    overflowChecks,   \* build profile: TRUE = overflow checks on (debug), FALSE = wrapping (release)
    pc,               \* position of main: "run", "fix", "candidate", "fallback", "done", "aborted", "idle"
    cur,              \* the instruction vector of the BootCode whose run() is active or was last active
    frame,            \* locals of the active run(): acc, ip, executed, iters, ret
    fixIdx,           \* loop index `ip` of run_with_fix's for loop
    part1,            \* value returned by boot_code.run() in main
    part2,            \* value returned by boot_code.run_with_fix() in main
    tried,            \* indices whose candidate program has been executed, in order
    \* src/03/part1.rs
    lines,            \* the lines of the input file, each a sequence of characters
    map,              \* Map { num_rows, num_cols, trees }
    current_pos,      \* MapPosition of navigate_toboggan
    num_trees,        \* counter of navigate_toboggan
    steps,            \* number of loop iterations navigate_toboggan has performed
    tpc,              \* "read", "navigate", "returned", "panic", "idle"
    tresult,          \* value returned by navigate_toboggan (-1 before it returns)
    \* src/puzzle-1b.rs
    vec,              \* the input numbers in file order
    a_i,              \* index of the outer loop (0-based)
    b_i,              \* index of the inner loop into vec (0-based)
    spc,              \* "check", "search", "printed", "finished", "panic", "idle"
    printed           \* sequence of printed results (at most one)

bootVars == <<instructions, overflowChecks, pc, cur, frame, fixIdx, part1, part2, tried>>
tobogganVars == <<lines, map, current_pos, num_trees, steps, tpc, tresult>>
sumVars == <<vec, a_i, b_i, spc, printed>>
vars == <<bootVars, tobogganVars, sumVars>>

(***************************************************************************)
(* Bounds of the model.                                                    *)
(***************************************************************************)
MaxLen == 3
MaxRows == 3
MaxCols == 3
MaxTrees == 2
MaxVecLen == 3

(***************************************************************************)
(* 32-bit signed arithmetic (i32) and the usize instruction pointer.       *)
(***************************************************************************)
MaxI32 == 2147483647
MinI32 == -MaxI32 - 1

\* `acc += val` leaves the i32 range
AddOverflows(a, b) ==
    \/ b > 0 /\ a > MaxI32 - b
    \/ b < 0 /\ a < MinI32 - b

\* two's complement result of `acc += val` when overflow checks are off
WrappingAdd(a, b) ==
    IF b > 0 /\ a > MaxI32 - b THEN (a - MaxI32 - 1) + (b - MaxI32 - 1)
    ELSE IF b < 0 /\ a < MinI32 - b THEN (a + MaxI32 + 1) + (b + MaxI32 + 1)
    ELSE a + b

\* Every usize above i32::MAX is represented by USizeHuge.  The program only
\* compares ip with instructions.len() and indexes executed[ip], and every
\* vector here is far shorter, so all such values behave alike.
USizeHuge == MaxI32

jmp_ipNoJump(ip, jmp) == ip + 1

\* (ip as isize + jmp as isize) as usize: a negative sum wraps to 2^64 - |sum|
jmp_ip(ip, jmp) ==
    IF jmp < 0 /\ ip + jmp < 0 THEN USizeHuge
    ELSE IF jmp > 0 /\ ip > USizeHuge - jmp THEN USizeHuge
    ELSE ip + jmp

(***************************************************************************)
(* Instruction and BootCodeResult.                                         *)
(***************************************************************************)
Nop(v) == [op |-> "Nop", arg |-> v]
Acc(v) == [op |-> "Acc", arg |-> v]
Jmp(v) == [op |-> "Jmp", arg |-> v]

Terminated(a) == [kind |-> "Terminated", acc |-> a]
Cyclic(a) == [kind |-> "Cyclic", acc |-> a]
\* the thread panicked: no BootCodeResult is produced
Panicked == [kind |-> "Panic", acc |-> 0]
\* the call has not returned yet
NoResult == [kind |-> "None", acc |-> 0]

(***************************************************************************)
(* BootCode::run, one loop iteration at a time.  Index i of a Rust vector  *)
(* is element i+1 of the sequence.                                         *)
(***************************************************************************)
RunInit(prog) ==
    [acc |-> 0, ip |-> 0, executed |-> [i \in 1..Len(prog) |-> FALSE],
     iters |-> 0, ret |-> NoResult]

AlreadyExecutedNever(f) == FALSE

\* executed[ip], for ip in bounds
AlreadyExecuted(f) == f.executed[f.ip + 1]

\* the body of `match self.instructions[ip]` on a frame whose index is marked
Execute(ins, f, checks) ==
    CASE ins.op = "Nop" -> [f EXCEPT !.ip = @ + 1]
      [] ins.op = "Acc" ->
            IF AddOverflows(f.acc, ins.arg)
            THEN IF checks
                 THEN [f EXCEPT !.ret = Panicked]
                 ELSE [f EXCEPT !.acc = WrappingAdd(@, ins.arg), !.ip = @ + 1]
            ELSE [f EXCEPT !.acc = @ + ins.arg, !.ip = @ + 1]
      [] ins.op = "Jmp" -> [f EXCEPT !.ip = jmp_ip(@, ins.arg)]

\* the loop test and, when it passes, one iteration of the while loop
RunStep(prog, f, checks) ==
    IF f.ip = Len(prog) THEN [f EXCEPT !.ret = Terminated(f.acc)]
    ELSE IF f.ip > Len(prog)
         THEN [f EXCEPT !.iters = @ + 1, !.ret = Panicked]
    ELSE IF AlreadyExecuted(f)
         THEN [f EXCEPT !.iters = @ + 1, !.ret = Cyclic(f.acc)]
    ELSE Execute(prog[f.ip + 1],
                 [f EXCEPT !.executed[f.ip + 1] = TRUE, !.iters = @ + 1],
                 checks)

RECURSIVE RunFrom(_, _, _)
RunFrom(prog, f, checks) ==
    IF f.ret # NoResult THEN f.ret
    ELSE RunFrom(prog, RunStep(prog, f, checks), checks)

\* the value of BootCode::from_instructions(prog).run()
run(prog, checks) == RunFrom(prog, RunInit(prog), checks)

(***************************************************************************)
(* Candidate programs of run_with_fix.                                     *)
(***************************************************************************)
FlipNopAll(prog, i) ==
    [k \in 1..Len(prog) |->
        IF prog[k].op = "Nop" THEN Jmp(prog[k].arg) ELSE prog[k]]

\* new_instructions[ip] = Instruction::Jmp(*val) on a clone
FlipNop(prog, i) == [prog EXCEPT ![i + 1] = Jmp(prog[i + 1].arg)]

\* new_instructions[ip] = Instruction::Nop(*val) on a clone
FlipJmp(prog, i) == [prog EXCEPT ![i + 1] = Nop(prog[i + 1].arg)]

FallbackProgramLast(self, last) == last

\* the program of the trailing `self.run()`
FallbackProgram(self, last) == self

(***************************************************************************)
(* Inputs.                                                                 *)
(***************************************************************************)
Args == {-1, 0, 1, 2, MaxI32}
Instructions == {Nop(v) : v \in Args} \cup {Acc(v) : v \in Args} \cup {Jmp(v) : v \in Args}

Programs == UNION {[1..n -> Instructions] : n \in 0..MaxLen}

\* example.txt of the tests
Example ==
    <<Nop(0), Acc(1), Jmp(4), Acc(3), Jmp(-3), Acc(-99), Acc(1), Jmp(-4), Acc(6)>>

(***************************************************************************)
(* main of src/08/main.rs: run(), then run_with_fix().                     *)
(***************************************************************************)
BootInit ==
    /\ instructions \in Programs \cup {Example}
    /\ overflowChecks \in BOOLEAN
    /\ pc = "run"
    /\ cur = instructions
    /\ frame = RunInit(instructions)
    /\ fixIdx = 0
    /\ part1 = NoResult
    /\ part2 = NoResult
    /\ tried = <<>>

BootIdle ==
    /\ instructions = <<>>
    /\ overflowChecks = FALSE
    /\ pc = "idle"
    /\ cur = <<>>
    /\ frame = RunInit(<<>>)
    /\ fixIdx = 0
    /\ part1 = NoResult
    /\ part2 = NoResult
    /\ tried = <<>>

\* one pass of the while loop of the active run()
RunLoop ==
    /\ pc \in {"run", "candidate", "fallback"}
    /\ frame.ret = NoResult
    /\ frame' = RunStep(cur, frame, overflowChecks)
    /\ UNCHANGED <<instructions, overflowChecks, pc, cur, fixIdx, part1, part2, tried>>
    /\ UNCHANGED <<tobogganVars, sumVars>>

\* boot_code.run() returns to main (or its panic ends the process)
MainRunReturns ==
    /\ pc = "run"
    /\ frame.ret # NoResult
    /\ part1' = frame.ret
    /\ pc' = IF frame.ret = Panicked THEN "aborted" ELSE "fix"
    /\ fixIdx' = 0
    /\ UNCHANGED <<instructions, overflowChecks, cur, frame, part2, tried>>
    /\ UNCHANGED <<tobogganVars, sumVars>>

\* for-loop of run_with_fix at a Nop: run the candidate with a Jmp there
FixTryNop ==
    /\ pc = "fix"
    /\ fixIdx < Len(instructions)
    /\ instructions[fixIdx + 1].op = "Nop"
    /\ cur' = FlipNop(instructions, fixIdx)
    /\ frame' = RunInit(cur')
    /\ tried' = Append(tried, fixIdx)
    /\ pc' = "candidate"
    /\ UNCHANGED <<instructions, overflowChecks, fixIdx, part1, part2>>
    /\ UNCHANGED <<tobogganVars, sumVars>>

\* for-loop of run_with_fix at a Jmp: run the candidate with a Nop there
FixTryJmp ==
    /\ pc = "fix"
    /\ fixIdx < Len(instructions)
    /\ instructions[fixIdx + 1].op = "Jmp"
    /\ cur' = FlipJmp(instructions, fixIdx)
    /\ frame' = RunInit(cur')
    /\ tried' = Append(tried, fixIdx)
    /\ pc' = "candidate"
    /\ UNCHANGED <<instructions, overflowChecks, fixIdx, part1, part2>>
    /\ UNCHANGED <<tobogganVars, sumVars>>

\* for-loop of run_with_fix at an Acc: nothing to try
FixSkipAcc ==
    /\ pc = "fix"
    /\ fixIdx < Len(instructions)
    /\ instructions[fixIdx + 1].op = "Acc"
    /\ fixIdx' = fixIdx + 1
    /\ UNCHANGED <<instructions, overflowChecks, pc, cur, frame, part1, part2, tried>>
    /\ UNCHANGED <<tobogganVars, sumVars>>

\* the candidate's run() is over: return it if Terminated, else next index
CandidateReturns ==
    /\ pc = "candidate"
    /\ frame.ret # NoResult
    /\ CASE frame.ret.kind = "Terminated" ->
                /\ part2' = frame.ret
                /\ pc' = "done"
                /\ UNCHANGED fixIdx
         [] frame.ret.kind = "Cyclic" ->
                /\ fixIdx' = fixIdx + 1
                /\ pc' = "fix"
                /\ UNCHANGED part2
         [] frame.ret.kind = "Panic" ->
                /\ part2' = Panicked
                /\ pc' = "aborted"
                /\ UNCHANGED fixIdx
    /\ UNCHANGED <<instructions, overflowChecks, cur, frame, part1, tried>>
    /\ UNCHANGED <<tobogganVars, sumVars>>

\* the for-loop is exhausted: self.run()
FixFallback ==
    /\ pc = "fix"
    /\ fixIdx = Len(instructions)
    /\ cur' = FallbackProgram(instructions, cur)
    /\ frame' = RunInit(cur')
    /\ pc' = "fallback"
    /\ UNCHANGED <<instructions, overflowChecks, fixIdx, part1, part2, tried>>
    /\ UNCHANGED <<tobogganVars, sumVars>>

\* the trailing self.run() is over: run_with_fix returns its value
FallbackReturns ==
    /\ pc = "fallback"
    /\ frame.ret # NoResult
    /\ part2' = frame.ret
    /\ pc' = IF frame.ret = Panicked THEN "aborted" ELSE "done"
    /\ UNCHANGED <<instructions, overflowChecks, cur, frame, fixIdx, part1, tried>>
    /\ UNCHANGED <<tobogganVars, sumVars>>

BootNext ==
    \/ RunLoop
    \/ MainRunReturns
    \/ FixTryNop
    \/ FixTryJmp
    \/ FixSkipAcc
    \/ CandidateReturns
    \/ FixFallback
    \/ FallbackReturns

(***************************************************************************)
(* src/03/part1.rs: encountered_trees_count reads the lines of a file,     *)
(* builds the Map and calls Map::navigate_toboggan.                        *)
(***************************************************************************)
MapPosition(r, c) == [r |-> r, c |-> c]

\* the line lengths of a file: at most MaxRows lines of at most MaxCols characters
Shapes == UNION {[1..n -> 0..MaxCols] : n \in 0..MaxRows}

\* the character positions of a file of that shape
Cells(shape) ==
    {pos \in {MapPosition(r, c) : r \in 0..(Len(shape) - 1), c \in 0..(MaxCols - 1)} :
        pos.c < shape[pos.r + 1]}

\* stands for "no further '#'" in a choice of MaxTrees positions
NoCell == MapPosition(-1, -1)

\* the file of that shape with '#' at the positions t and '.' elsewhere
FileOf(shape, t) ==
    [r \in 1..Len(shape) |->
        [c \in 1..shape[r] |-> IF MapPosition(r - 1, c - 1) \in t THEN "#" ELSE "."]]

\* Map::new(lines.len(), lines[0].chars().count()) and an add_tree per '#'
MapOf(file) ==
    [num_rows |-> Len(file),
     num_cols |-> Len(file[1]),
     trees |-> UNION {{MapPosition(r - 1, c - 1) : c \in {k \in 1..Len(file[r]) : file[r][k] = "#"}} :
                         r \in 1..Len(file)}]

\* no Map has been built
NoMap == [num_rows |-> 0, num_cols |-> 0, trees |-> {}]

MoveStraightDown(m, pos) == MapPosition(pos.r + 1, pos.c)

\* current_pos.r += 1; current_pos.c = (current_pos.c + 3) % self.num_cols
Move(m, pos) == MapPosition(pos.r + 1, (pos.c + 3) % m.num_cols)

\* self.trees.contains(&current_pos)
HasTree(m, pos) == pos \in m.trees

\* a file of at most MaxRows lines of at most MaxCols characters, at most
\* MaxTrees of them '#'
TobogganInit ==
    /\ \E shape \in Shapes :
          \E f \in [1..MaxTrees -> Cells(shape) \cup {NoCell}] :
              lines = FileOf(shape, {f[i] : i \in 1..MaxTrees})
    /\ map = NoMap
    /\ current_pos = MapPosition(0, 0)
    /\ num_trees = 0
    /\ steps = 0
    /\ tpc = "read"
    /\ tresult = -1

TobogganIdle ==
    /\ lines = <<>>
    /\ map = NoMap
    /\ current_pos = MapPosition(0, 0)
    /\ num_trees = 0
    /\ steps = 0
    /\ tpc = "idle"
    /\ tresult = -1

\* encountered_trees_count up to the call of navigate_toboggan; lines[0]
\* panics on an empty file
BuildMap ==
    /\ tpc = "read"
    /\ IF Len(lines) = 0
       THEN /\ tpc' = "panic"
            /\ UNCHANGED map
       ELSE /\ map' = MapOf(lines)
            /\ tpc' = "navigate"
    /\ UNCHANGED <<lines, current_pos, num_trees, steps, tresult>>
    /\ UNCHANGED <<bootVars, sumVars>>

\* one pass of the while loop; `% 0` panics after `current_pos.r += 1`
NavigateStep ==
    /\ tpc = "navigate"
    /\ current_pos.r # map.num_rows
    /\ steps' = steps + 1
    /\ IF map.num_cols = 0
       THEN /\ current_pos' = [current_pos EXCEPT !.r = @ + 1]
            /\ tpc' = "panic"
            /\ UNCHANGED num_trees
       ELSE /\ current_pos' = Move(map, current_pos)
            /\ num_trees' = IF HasTree(map, current_pos') THEN num_trees + 1 ELSE num_trees
            /\ UNCHANGED tpc
    /\ UNCHANGED <<lines, map, tresult>>
    /\ UNCHANGED <<bootVars, sumVars>>

\* the loop test fails: return num_trees
NavigateReturn ==
    /\ tpc = "navigate"
    /\ current_pos.r = map.num_rows
    /\ tresult' = num_trees
    /\ tpc' = "returned"
    /\ UNCHANGED <<lines, map, current_pos, num_trees, steps>>
    /\ UNCHANGED <<bootVars, sumVars>>

TobogganNext ==
    \/ BuildMap
    \/ NavigateStep
    \/ NavigateReturn

(***************************************************************************)
(* src/puzzle-1b.rs: main after the input has been read into vec and set.  *)
(***************************************************************************)
TARGET == 2020

\* Input values.  With them TARGET - a - b and a * b * diff stay far inside
\* the i32 range, so the arithmetic below is the program's.
Values == {7, 500, 520, 1000, 1020}

Vecs == UNION {[1..n -> Values] : n \in 0..MaxVecLen}

\* the HashSet filled alongside vec
SetOf(v) == {v[i] : i \in 1..Len(v)}

\* set.contains(&diff) with diff = TARGET - a - b
DiffInSet(v, a, b) == (TARGET - a - b) \in SetOf(v)

SumInit ==
    /\ vec \in Vecs
    /\ a_i = 0
    /\ b_i = 0
    /\ spc = "check"
    /\ printed = <<>>

SumIdle ==
    /\ vec = <<>>
    /\ a_i = 0
    /\ b_i = 0
    /\ spc = "idle"
    /\ printed = <<>>

\* assert_eq!(set.len(), vec.len()), then the slice vec[..vec.len() - 2]
SumCheck ==
    /\ spc = "check"
    /\ IF Cardinality(SetOf(vec)) # Len(vec) THEN spc' = "panic"
       ELSE IF Len(vec) < 2 THEN spc' = "panic"
       ELSE IF Len(vec) = 2 THEN spc' = "finished"
       ELSE spc' = "search"
    /\ IF spc' = "search"
       THEN a_i' = 0 /\ b_i' = 1
       ELSE UNCHANGED <<a_i, b_i>>
    /\ UNCHANGED <<vec, printed>>
    /\ UNCHANGED <<bootVars, tobogganVars>>

\* one pass of the inner loop
SumInner ==
    /\ spc = "search"
    /\ LET a == vec[a_i + 1]
           b == vec[b_i + 1]
       IN IF DiffInSet(vec, a, b)
          THEN /\ printed' = Append(printed, a * b * (TARGET - a - b))
               /\ spc' = "printed"
               /\ UNCHANGED <<a_i, b_i>>
          ELSE /\ UNCHANGED printed
               /\ IF b_i + 1 < Len(vec)
                  THEN /\ b_i' = b_i + 1
                       /\ UNCHANGED <<a_i, spc>>
                  ELSE IF a_i + 1 < Len(vec) - 2
                  THEN /\ a_i' = a_i + 1
                       /\ b_i' = a_i + 2
                       /\ UNCHANGED spc
                  ELSE /\ spc' = "finished"
                       /\ UNCHANGED <<a_i, b_i>>
    /\ UNCHANGED vec
    /\ UNCHANGED <<bootVars, tobogganVars>>

SumNext ==
    \/ SumCheck
    \/ SumInner

(***************************************************************************)
(* Specifications.                                                         *)
(***************************************************************************)
Init == BootInit /\ TobogganIdle /\ SumIdle
Next == BootNext
Spec == Init /\ [][Next]_vars

InitToboggan == BootIdle /\ TobogganInit /\ SumIdle
NextToboggan == TobogganNext
SpecToboggan == InitToboggan /\ [][NextToboggan]_vars

InitSum == BootIdle /\ TobogganIdle /\ SumInit
NextSum == SumNext
SpecSum == InitSum /\ [][NextSum]_vars

(***************************************************************************)
(* Helpers of the properties.                                              *)
(***************************************************************************)
\* run_with_fix was called and is over (it returned, or its panic ended the process)
FixOver == pc = "done" \/ (pc = "aborted" /\ part1 # Panicked)

\* the candidate program run_with_fix builds for index i (0-based)
Candidate(i) ==
    IF instructions[i + 1].op = "Nop" THEN FlipNop(instructions, i)
    ELSE FlipJmp(instructions, i)

\* indices whose Nop<->Jmp flip gives a program that run() reports Terminated
FixingIndices ==
    {i \in 0..(Len(instructions) - 1) :
        /\ instructions[i + 1].op \in {"Nop", "Jmp"}
        /\ run(Candidate(i), overflowChecks).kind = "Terminated"}

Smallest(S) == CHOOSE i \in S : \A j \in S : i <= j

\* the finished program `cur` is the original with exactly one Nop<->Jmp flip
ExactlyOneFlip ==
    /\ Len(cur) = Len(instructions)
    /\ \E i \in 1..Len(instructions) :
        /\ {k \in 1..Len(instructions) : cur[k] # instructions[k]} = {i}
        /\ instructions[i].op \in {"Nop", "Jmp"}
        /\ cur[i].op \in {"Nop", "Jmp"}
        /\ cur[i].arg = instructions[i].arg

\* Exact comparison of acc with a sum that may leave the 32-bit range: both
\* sides are split into a high and a low part at 2^16.
Limb == 256 * 256
Hi(v) == v \div Limb
Lo(v) == v % Limb

\* the argument of every executed Acc instruction, 0 elsewhere
ExecutedAccArgs ==
    [i \in 1..Len(cur) |->
        IF frame.executed[i] /\ cur[i].op = "Acc" THEN cur[i].arg ELSE 0]

RECURSIVE SumHi(_, _)
SumHi(s, n) == IF n = 0 THEN 0 ELSE Hi(s[n]) + SumHi(s, n - 1)

RECURSIVE SumLo(_, _)
SumLo(s, n) == IF n = 0 THEN 0 ELSE Lo(s[n]) + SumLo(s, n - 1)

AccIsSumOfExecuted ==
    LET h == SumHi(ExecutedAccArgs, Len(cur))
        l == SumLo(ExecutedAccArgs, Len(cur))
    IN /\ Hi(frame.acc) = h + (l \div Limb)
       /\ Lo(frame.acc) = l % Limb

ExecutedCount == Cardinality({i \in 1..Len(cur) : frame.executed[i]})

(***************************************************************************)
(* Properties of src/08/main.rs.                                           *)
(***************************************************************************)
\* C1: a run of a program of N instructions performs at most N+1 iterations
\* of its loop, and every iteration but a final revisit (or out-of-range
\* index) marks one more instruction as executed.
C1_RunBounded ==
    pc # "idle" =>
        /\ frame.iters <= Len(cur) + 1
        /\ ExecutedCount <= frame.iters
        /\ frame.iters <= ExecutedCount + 1

\* C1 witness: a run that needed all N+1 iterations and ended Cyclic
C1_Witness ==
    /\ Len(cur) >= 2
    /\ frame.iters = Len(cur) + 1
    /\ frame.ret.kind = "Cyclic"

\* C2 (as claimed): every run produces Terminated or Cyclic; no run panics.
C2_NeverPanics == frame.ret # Panicked

\* C3 (as claimed): whenever run_with_fix returns Terminated, the program
\* that produced the result differs from the original at exactly one index,
\* whose original instruction is Nop or Jmp.
C3_Original ==
    (pc = "done" /\ part2.kind = "Terminated") => ExactlyOneFlip

\* C3 (amended): whenever run_with_fix returns Terminated, the program that
\* produced the result either differs from the original at exactly one index
\* whose original instruction is Nop or Jmp, or is the unmodified original
\* run as the fallback after the loop passed every index.
C3_OneFlipOrFallback ==
    (pc = "done" /\ part2.kind = "Terminated") =>
        \/ ExactlyOneFlip /\ fixIdx < Len(instructions)
        \/ cur = instructions /\ fixIdx = Len(instructions)

\* C3 witness: a Terminated result produced by a one-flip candidate of a
\* program that also holds an Acc
C3_Witness ==
    /\ pc = "done"
    /\ part2.kind = "Terminated"
    /\ ExactlyOneFlip
    /\ \E k \in 1..Len(instructions) : instructions[k].op = "Acc"

\* C4 (as claimed): if no single flip yields Terminated, run_with_fix returns
\* exactly what run returned on the unmodified program.
C4_Original ==
    (FixOver /\ FixingIndices = {}) => part2 = part1

\* C5: on the example program run returns Cyclic(5) and run_with_fix
\* returns Terminated(8).
C5_Example ==
    instructions = Example =>
        /\ part1 \in {NoResult, Cyclic(5)}
        /\ part2 \in {NoResult, Terminated(8)}
        /\ pc # "aborted"
        /\ pc \in {"fix", "candidate", "fallback", "done"} => part1 = Cyclic(5)
        /\ pc = "done" => part2 = Terminated(8)

\* C5 witness: main is over on the example program
C5_Witness ==
    /\ instructions = Example
    /\ pc = "done"
    /\ part1 = Cyclic(5)
    /\ part2 = Terminated(8)

\* C6 (as claimed): if some index's flip makes the program terminate,
\* run_with_fix returns the Terminated result of the candidate flipped at the
\* smallest such index, and no candidate with a larger index is executed.
C6_Original ==
    (FixOver /\ FixingIndices # {}) =>
        /\ part2.kind = "Terminated"
        /\ part2 = run(Candidate(Smallest(FixingIndices)), overflowChecks)
        /\ \A k \in 1..Len(tried) : tried[k] <= Smallest(FixingIndices)

\* C7 (as claimed): during any run every index is executed at most once, the
\* accumulator equals the sum of the arguments of the Acc instructions
\* executed so far, and a revisit ends the run with Cyclic(acc) without
\* executing the instruction again.
C7_Original ==
    (pc # "idle" /\ frame.ret # Panicked) =>
        /\ AccIsSumOfExecuted
        /\ ExecutedCount <= frame.iters
        /\ frame.ret.kind = "Cyclic" =>
              /\ frame.ret.acc = frame.acc
              /\ frame.ip < Len(cur)
              /\ frame.executed[frame.ip + 1]
              /\ frame.iters = ExecutedCount + 1

\* C8 (as claimed): when run_with_fix falls back to the unmodified program,
\* the result it returns is Cyclic.
C8_Original ==
    (pc = "done" /\ fixIdx = Len(instructions)) => part2.kind = "Cyclic"

\* C8 (amended): when run_with_fix falls back to the unmodified program, the
\* result it returns is the one run gives on that program: Cyclic when the
\* program cycles, Terminated when it already terminates.
C8_FallbackIsOriginalRun ==
    (pc = "done" /\ fixIdx = Len(instructions)) =>
        /\ part2 = part1
        /\ part2.kind \in {"Cyclic", "Terminated"}
        /\ \A k \in 1..Len(tried) :
              run(Candidate(tried[k]), overflowChecks).kind = "Cyclic"

\* C8 witness: a fallback after candidates were tried, on a program that
\* itself terminates
C8_Witness ==
    /\ pc = "done"
    /\ fixIdx = Len(instructions)
    /\ tried # <<>>
    /\ part2.kind = "Terminated"

(***************************************************************************)
(* Properties of src/03/part1.rs.                                          *)
(***************************************************************************)
\* rows 1..num_rows-1 that have a tree at column (3*r) mod num_cols
TreesOnSlope ==
    {r \in 1..(map.num_rows - 1) : MapPosition(r, (3 * r) % map.num_cols) \in map.trees}

\* C9: navigate_toboggan performs exactly num_rows steps, step k landing on
\* (k, 3k mod num_cols), and returns the number of rows 1..num_rows-1 with a
\* tree at column 3r mod num_cols; neither the start cell nor the row past
\* the map is counted.  The walk panics only on a map without columns (and
\* no map is built from an empty file).
C9_Toboggan ==
    /\ tpc = "navigate" =>
          /\ steps <= map.num_rows
          /\ current_pos.r = steps
          /\ map.num_cols > 0 => current_pos.c = (3 * steps) % map.num_cols
    /\ tpc = "returned" =>
          /\ steps = map.num_rows
          /\ tresult = Cardinality(TreesOnSlope)
    /\ tpc \in {"navigate", "returned"} =>
          /\ map = MapOf(lines)
          /\ map.num_rows >= 1
          /\ \A pos \in map.trees : pos.r < map.num_rows
    /\ tpc = "panic" => (Len(lines) = 0 \/ (map = MapOf(lines) /\ map.num_cols = 0))

\* C9 witness: a finished walk that met a tree, on a map with a tree in the
\* start cell and a tree in the last row that is on the slope
C9_Witness ==
    /\ tpc = "returned"
    /\ map.num_rows >= 3
    /\ map.num_cols >= 2
    /\ MapPosition(0, 0) \in map.trees
    /\ map.num_rows - 1 \in TreesOnSlope
    /\ tresult = Cardinality(TreesOnSlope)
    /\ tresult < Cardinality(map.trees)

(***************************************************************************)
(* Properties of src/puzzle-1b.rs.                                         *)
(***************************************************************************)
\* triples of three different positions of vec whose entries sum to TARGET
Triples ==
    {t \in (1..Len(vec)) \X (1..Len(vec)) \X (1..Len(vec)) :
        /\ t[1] # t[2] /\ t[1] # t[3] /\ t[2] # t[3]
        /\ vec[t[1]] + vec[t[2]] + vec[t[3]] = TARGET}

\* C10 (as claimed): for pairwise distinct inputs, a printed result is the
\* product of three entries at three different positions that sum to 2020,
\* and a result is printed whenever such a triple exists.
C10_Original ==
    Cardinality(SetOf(vec)) = Len(vec) =>
        /\ spc = "printed" =>
              \E t \in Triples : printed = <<vec[t[1]] * vec[t[2]] * vec[t[3]]>>
        /\ spc \in {"finished", "panic"} => Triples = {}

====
